---- MODULE Spec2Model ----
(***************************************************************************)
(* The three tools of the code-review agent (src/tools.ts):               *)
(*   getFileChangesInDirectory  - the Change Reader                       *)
(*   generateCommitMessage      - the Commit Message Summarizer           *)
(*   writeMarkdownFile          - the Report Writer                       *)
(* Strings are TLA+ strings; the JavaScript string methods the code uses  *)
(* (substring, endsWith, join, template literals) are operators below.    *)
(***************************************************************************)
EXTENDS Integers, Sequences, FiniteSets, TLC

VARIABLES
    files,          \* git: diffSummary().files of the working tree, in git's order
    broken,         \* git: the files whose `git diff -- <file>` fails
    maxLength,      \* generateCommitMessage: the effective maxLength of the call
    commitMessage,  \* generateCommitMessage: the local commitMessage before truncation
    commitResult,   \* generateCommitMessage: the returned string
    readerPc,       \* getFileChangesInDirectory: position of the call
    idx,            \* getFileChangesInDirectory: index of the loop over summary.files
    diffs,          \* getFileChangesInDirectory: the local diffs array
    queried,        \* git: the files git.diff was asked for, in order
    readerResult,   \* getFileChangesInDirectory: the returned array
    readerError,    \* getFileChangesInDirectory: the error the call failed with
    dirs,           \* filesystem: the directories that exist
    disk,           \* filesystem: path -> content of every file written
    now,            \* wall clock, in seconds of the epoch
    calls,          \* writeMarkdownFile: the calls that returned, inputs and result
    writePc         \* writeMarkdownFile: how the last call ended

vars == <<files, broken, maxLength, commitMessage, commitResult, readerPc, idx,
          diffs, queried, readerResult, readerError, dirs, disk, now, calls,
          writePc>>

gitVars    == <<files, broken>>
commitVars == <<maxLength, commitMessage, commitResult>>
readerVars == <<readerPc, idx, diffs, queried, readerResult, readerError>>
writerVars == <<dirs, disk, now, calls, writePc>>

----------------------------------------------------------------------------
(* Bounds of the model *)

\* the most files a diff summary holds
MaxFiles == 4
\* the most writeMarkdownFile calls in a behaviour
MaxWrites == 3

\* the file names a working tree may report
FileNames == {"a.ts", "b.ts", "c.ts", "d.ts", "dist"}

\* what diffSummary reports per file: a text file carries its counts, a binary
\* file carries no insertions/deletions fields
TextStat(i, d) == [binary |-> FALSE, insertions |-> i, deletions |-> d]
BinaryStat == [binary |-> TRUE]
StatKinds == {BinaryStat, TextStat(10, 0), TextStat(0, 5), TextStat(7, 3)}

\* no value: an optional argument left out, a call that has not returned
Undefined == "<undefined>"

\* the maxLength arguments a caller passes: <<>> leaves the optional argument out
MaxLengthArgs == {<<>>, <<2>>, <<20>>}

\* the counts of the working trees that hold pure additions only
AdditionStats == {TextStat(10, 0), TextStat(3, 0)}

\* what the Change Reader is run on: it never reads the counts
ReaderStats == {TextStat(7, 3)}

\* the arguments writeMarkdownFile is called with: <<>> leaves directory out
Contents == {"LGTM", "Needs work"}
Filenames == {"notes", "notes.md", "review", "README.MD"}
DirectoryArgs == {<<>>, <<"./reports">>}

----------------------------------------------------------------------------
(* JavaScript strings *)

Min(a, b) == IF a < b THEN a ELSE b
Max(a, b) == IF a > b THEN a ELSE b

Digit(d) == CASE d = 0 -> "0" [] d = 1 -> "1" [] d = 2 -> "2" [] d = 3 -> "3"
              [] d = 4 -> "4" [] d = 5 -> "5" [] d = 6 -> "6" [] d = 7 -> "7"
              [] d = 8 -> "8" [] d = 9 -> "9"

\* `${n}` of a non-negative integer
RECURSIVE NumStr(_)
NumStr(n) == IF n < 10 THEN Digit(n) ELSE NumStr(n \div 10) \o Digit(n % 10)

\* s.substring(from, to): arguments below 0 count as 0, above the length as the
\* length, and they are swapped when from > to
Substring(s, from, to) ==
    LET a == Max(0, Min(from, Len(s)))
        b == Max(0, Min(to, Len(s)))
    IN  SubSeq(s, Min(a, b) + 1, Max(a, b))

\* s.endsWith(suffix)
EndsWith(s, suffix) ==
    /\ Len(suffix) <= Len(s)
    /\ SubSeq(s, Len(s) - Len(suffix) + 1, Len(s)) = suffix

\* parts.join(sep)
RECURSIVE JoinStr(_, _)
JoinStr(parts, sep) ==
    IF Len(parts) = 0 THEN ""
    ELSE IF Len(parts) = 1 THEN parts[1]
    ELSE parts[1] \o sep \o JoinStr(Tail(parts), sep)

\* arr.includes(x)
Includes(arr, x) == \E i \in 1..Len(arr) : arr[i] = x

\* arr.map(f => f.file)
FileNamesOf(arr) == [i \in 1..Len(arr) |-> arr[i].file]

----------------------------------------------------------------------------
(* generateCommitMessage *)

excludeFiles == <<"dist", "bun.lock">>

DefaultMaxLength == 72
ListedAtMost == 3

\* summary.files.filter(not excluded).map(to file/insertions/deletions)
ChangedFilesMutant(summaryFiles) ==
    [i \in 1..Len(summaryFiles) |->
        LET file == summaryFiles[i]
        IN  [file |-> file.file,
             insertions |-> IF "insertions" \in DOMAIN file THEN file.insertions ELSE 0,
             deletions  |-> IF "deletions" \in DOMAIN file THEN file.deletions ELSE 0]]
ChangedFiles(summaryFiles) ==
    LET kept == SelectSeq(summaryFiles, LAMBDA file : ~Includes(excludeFiles, file.file))
    IN  [i \in 1..Len(kept) |->
            LET file == kept[i]
            IN  [file |-> file.file,
                 insertions |-> IF "insertions" \in DOMAIN file THEN file.insertions ELSE 0,
                 deletions  |-> IF "deletions" \in DOMAIN file THEN file.deletions ELSE 0]]

newFiles(changedFiles) ==
    SelectSeq(changedFiles, LAMBDA f : f.insertions > 0 /\ f.deletions = 0)
deletedFiles(changedFiles) ==
    SelectSeq(changedFiles, LAMBDA f : f.insertions = 0 /\ f.deletions > 0)
modifiedFiles(changedFiles) ==
    SelectSeq(changedFiles, LAMBDA f : f.insertions > 0 /\ f.deletions > 0)

\* `${n > 1 ? 's' : ''}`
PluralMutant(n) == "s"
Plural(n) == IF n > 1 THEN "s" ELSE ""

\* the `: a, b, c` listing of a bucket of at most three files
ListingMutant(bucket) ==
    IF Len(bucket) < ListedAtMost THEN ": " \o JoinStr(FileNamesOf(bucket), ", ") ELSE ""
Listing(bucket) ==
    IF Len(bucket) <= ListedAtMost THEN ": " \o JoinStr(FileNamesOf(bucket), ", ") ELSE ""

\* the if / else-if chain over the three buckets
HeadlineMutant(changedFiles) ==
    LET added    == newFiles(changedFiles)
        deleted  == deletedFiles(changedFiles)
        modified == modifiedFiles(changedFiles)
    IN  IF Len(deleted) > 0
        THEN "Remove " \o NumStr(Len(deleted)) \o " file" \o Plural(Len(deleted))
                 \o Listing(deleted)
        ELSE IF Len(added) > 0
        THEN "Add " \o NumStr(Len(added)) \o " new file" \o Plural(Len(added))
                 \o Listing(added)
        ELSE IF Len(modified) > 0
        THEN "Update " \o NumStr(Len(modified)) \o " file" \o Plural(Len(modified))
                 \o Listing(modified)
        ELSE ""
Headline(changedFiles) ==
    LET added    == newFiles(changedFiles)
        deleted  == deletedFiles(changedFiles)
        modified == modifiedFiles(changedFiles)
    IN  IF Len(added) > 0
        THEN "Add " \o NumStr(Len(added)) \o " new file" \o Plural(Len(added))
                 \o Listing(added)
        ELSE IF Len(deleted) > 0
        THEN "Remove " \o NumStr(Len(deleted)) \o " file" \o Plural(Len(deleted))
                 \o Listing(deleted)
        ELSE IF Len(modified) > 0
        THEN "Update " \o NumStr(Len(modified)) \o " file" \o Plural(Len(modified))
                 \o Listing(modified)
        ELSE ""

\* changedFiles.reduce((sum, f) => sum + f.insertions, 0), and the same of deletions
RECURSIVE SumOf(_, _)
SumOf(changedFiles, field) ==
    IF Len(changedFiles) = 0 THEN 0
    ELSE changedFiles[1][field] + SumOf(Tail(changedFiles), field)

\* the ` (+I -D)` summary of changes
StatsSuffix(changedFiles) ==
    LET totalInsertions == SumOf(changedFiles, "insertions")
        totalDeletions  == SumOf(changedFiles, "deletions")
    IN  IF totalInsertions > 0 \/ totalDeletions > 0
        THEN " (+" \o NumStr(totalInsertions) \o " -" \o NumStr(totalDeletions) \o ")"
        ELSE ""

\* the truncation of a message that is too long
Truncate(message, limit) ==
    IF Len(message) > limit
    THEN Substring(message, 0, limit - 3) \o "..."
    ELSE message

\* one call of generateCommitMessage({rootDir, maxLength = 72})
generateCommitMessage(maxLengthArg) ==
    /\ commitResult = Undefined
    /\ maxLength' = IF maxLengthArg = <<>> THEN DefaultMaxLength ELSE maxLengthArg[1]
    /\ IF Len(files) = 0
       THEN /\ commitMessage' = ""
            /\ commitResult' = "No changes detected"
       ELSE LET changedFiles == ChangedFiles(files)
                assembled    == Headline(changedFiles) \o StatsSuffix(changedFiles)
            IN  /\ commitMessage' = assembled
                /\ commitResult' = Truncate(assembled, maxLength')
    /\ UNCHANGED <<gitVars, readerVars, writerVars>>

----------------------------------------------------------------------------
(* getFileChangesInDirectory *)

\* what `git diff -- <file>` prints for a file
DiffText(file) == "diff --git a/" \o file \o " b/" \o file

\* what `git diff -- <file>` throws for a file it cannot diff
DiffError(file) == "GitError: " \o file

\* const summary = await git.diffSummary(); const diffs = []
getFileChangesStart ==
    /\ readerPc = "idle"
    /\ readerPc' = "loop"
    /\ idx' = 1
    /\ diffs' = <<>>
    /\ UNCHANGED <<queried, readerResult, readerError, gitVars, commitVars, writerVars>>

\* one pass of the loop over summary.files
getFileChangesStepUnshift ==
    /\ readerPc = "loop"
    /\ idx <= Len(files)
    /\ LET file == files[idx]
       IN  IF Includes(excludeFiles, file.file)
           THEN /\ idx' = idx + 1
                /\ UNCHANGED <<readerPc, diffs, queried, readerError>>
           ELSE /\ queried' = Append(queried, file.file)
                /\ IF file.file \in broken
                   THEN /\ readerPc' = "failed"
                        /\ readerError' = DiffError(file.file)
                        /\ UNCHANGED <<idx, diffs>>
                   ELSE /\ diffs' = <<[file |-> file.file, diff |-> DiffText(file.file)]>>
                                        \o diffs
                        /\ idx' = idx + 1
                        /\ UNCHANGED <<readerPc, readerError>>
    /\ UNCHANGED <<readerResult, gitVars, commitVars, writerVars>>
getFileChangesStepSkipsFailure ==
    /\ readerPc = "loop"
    /\ idx <= Len(files)
    /\ LET file == files[idx]
       IN  IF Includes(excludeFiles, file.file)
           THEN /\ idx' = idx + 1
                /\ UNCHANGED <<readerPc, diffs, queried, readerError>>
           ELSE /\ queried' = Append(queried, file.file)
                /\ idx' = idx + 1
                /\ diffs' = IF file.file \in broken THEN diffs
                            ELSE Append(diffs, [file |-> file.file,
                                                diff |-> DiffText(file.file)])
                /\ UNCHANGED <<readerPc, readerError>>
    /\ UNCHANGED <<readerResult, gitVars, commitVars, writerVars>>
getFileChangesStep ==
    /\ readerPc = "loop"
    /\ idx <= Len(files)
    /\ LET file == files[idx]
       IN  IF Includes(excludeFiles, file.file)
           THEN /\ idx' = idx + 1
                /\ UNCHANGED <<readerPc, diffs, queried, readerError>>
           ELSE /\ queried' = Append(queried, file.file)
                /\ IF file.file \in broken
                   THEN /\ readerPc' = "failed"
                        /\ readerError' = DiffError(file.file)
                        /\ UNCHANGED <<idx, diffs>>
                   ELSE /\ diffs' = Append(diffs, [file |-> file.file,
                                                   diff |-> DiffText(file.file)])
                        /\ idx' = idx + 1
                        /\ UNCHANGED <<readerPc, readerError>>
    /\ UNCHANGED <<readerResult, gitVars, commitVars, writerVars>>

\* return diffs
getFileChangesReturn ==
    /\ readerPc = "loop"
    /\ idx > Len(files)
    /\ readerPc' = "done"
    /\ readerResult' = diffs
    /\ UNCHANGED <<idx, diffs, queried, readerError, gitVars, commitVars, writerVars>>

----------------------------------------------------------------------------
(* writeMarkdownFile *)

\* the segments of a path between its "/" separators
RECURSIVE SplitPath(_)
SplitPath(path) ==
    IF \A i \in 1..Len(path) : SubSeq(path, i, i) # "/"
    THEN <<path>>
    ELSE LET i == CHOOSE j \in 1..Len(path) :
                      /\ SubSeq(path, j, j) = "/"
                      /\ \A k \in 1..(j - 1) : SubSeq(path, k, k) # "/"
         IN  <<SubSeq(path, 1, i - 1)>> \o SplitPath(SubSeq(path, i + 1, Len(path)))

\* path.normalize of a relative path: "" and "." segments drop out, ".." takes back
\* the segment before it, and nothing left is "."
RECURSIVE ResolveSegments(_, _)
ResolveSegments(segments, done) ==
    IF Len(segments) = 0 THEN done
    ELSE LET seg == Head(segments)
         IN  IF seg = "" \/ seg = "." THEN ResolveSegments(Tail(segments), done)
             ELSE IF seg = ".." /\ Len(done) > 0 /\ done[Len(done)] # ".."
                  THEN ResolveSegments(Tail(segments), SubSeq(done, 1, Len(done) - 1))
                  ELSE ResolveSegments(Tail(segments), Append(done, seg))

NormalizePath(path) ==
    LET segments == ResolveSegments(SplitPath(path), <<>>)
    IN  IF Len(segments) = 0 THEN "." ELSE JoinStr(segments, "/")

\* path.join(directory, name)
PathJoin(directory, name) == NormalizePath(directory \o "/" \o name)

\* the directory and every directory above it, as mkdirSync(recursive) makes them
RECURSIVE WithParents(_)
WithParents(segments) ==
    IF Len(segments) = 0 THEN {"."}
    ELSE {JoinStr(segments, "/")} \cup WithParents(SubSeq(segments, 1, Len(segments) - 1))

MkdirRecursive(existing, directory) ==
    existing \cup WithParents(ResolveSegments(SplitPath(directory), <<>>))

\* filename.endsWith('.md') ? filename : `${filename}.md`
MarkdownFilenameAlwaysAppends(filename) == filename \o ".md"
MarkdownFilename(filename) ==
    IF EndsWith(filename, ".md") THEN filename ELSE filename \o ".md"

\* new Date().toISOString() of a time within the epoch's first ten seconds
ISOString(seconds) == "1970-01-01T00:00:0" \o NumStr(seconds) \o ".000Z"

\* the title, the timestamp line and the rule put before the content
Header(timestamp) ==
    "# Code Review Report\n\n*Generated on: " \o timestamp \o "*\n\n---\n\n"

\* writeFileSync(filePath, fullContent, 'utf8')
WriteFileAppends(files_on_disk, filePath, fullContent) ==
    LET old == {e \in files_on_disk : e.path = filePath}
    IN  {e \in files_on_disk : e.path # filePath}
            \cup {[path |-> filePath,
                   content |-> (IF old = {} THEN ""
                                ELSE (CHOOSE e \in old : TRUE).content) \o fullContent]}
WriteFile(files_on_disk, filePath, fullContent) ==
    {e \in files_on_disk : e.path # filePath}
        \cup {[path |-> filePath, content |-> fullContent]}

\* one call of writeMarkdownFile({content, filename, directory = "."}) that returns
writeMarkdownFile(content, filename, directoryArg) ==
    /\ now < MaxWrites
    /\ LET directory        == IF directoryArg = <<>> THEN "." ELSE directoryArg[1]
           markdownFilename == MarkdownFilename(filename)
           filePath         == PathJoin(directory, markdownFilename)
           timestamp        == ISOString(now)
           fullContent      == Header(timestamp) \o content
       IN  /\ dirs' = IF NormalizePath(directory) \notin dirs
                      THEN MkdirRecursive(dirs, directory)
                      ELSE dirs
           /\ disk' = WriteFile(disk, filePath, fullContent)
           /\ calls' = Append(calls,
                  [content |-> content, filename |-> filename, directory |-> directory,
                   timestamp |-> timestamp,
                   success |-> TRUE, filePath |-> filePath,
                   message |-> "Markdown file written successfully to " \o filePath])
    /\ writePc' = "returned"
    /\ now' = now + 1
    /\ UNCHANGED <<gitVars, commitVars, readerVars>>

\* one call of writeMarkdownFile that throws: mkdirSync fails, or writeFileSync
\* fails after the directory was made
writeMarkdownFileThrows(directoryArg, failing) ==
    /\ now < MaxWrites
    /\ LET directory == IF directoryArg = <<>> THEN "." ELSE directoryArg[1]
       IN  \/ /\ failing = "mkdirSync"
              /\ NormalizePath(directory) \notin dirs
              /\ dirs' = dirs
           \/ /\ failing = "writeFileSync"
              /\ dirs' = IF NormalizePath(directory) \notin dirs
                         THEN MkdirRecursive(dirs, directory)
                         ELSE dirs
    /\ writePc' = "threw"
    /\ now' = now + 1
    /\ UNCHANGED <<disk, calls, gitVars, commitVars, readerVars>>

----------------------------------------------------------------------------
(* The working tree *)

\* a file of the working tree changes: git reports it after the others
WorkingTreeChange(f, stat) ==
    /\ commitResult = Undefined
    /\ readerPc = "idle"
    /\ Len(files) < MaxFiles
    /\ ~Includes(FileNamesOf(files), f)
    /\ files' = Append(files, [file |-> f] @@ stat)
    /\ UNCHANGED <<broken, commitVars, readerVars, writerVars>>

----------------------------------------------------------------------------
(* Specifications *)

InitCommon ==
    /\ files = <<>>
    /\ maxLength = DefaultMaxLength
    /\ commitMessage = ""
    /\ commitResult = Undefined
    /\ readerPc = "idle"
    /\ idx = 0
    /\ diffs = <<>>
    /\ queried = <<>>
    /\ readerResult = <<>>
    /\ readerError = Undefined
    /\ dirs = {"."}
    /\ disk = {}
    /\ now = 0
    /\ calls = <<>>
    /\ writePc = "none"

InitSummarizer ==
    /\ InitCommon
    /\ broken = {}

NextSummarizer ==
    \/ \E f \in FileNames, stat \in StatKinds : WorkingTreeChange(f, stat)
    \/ \E m \in MaxLengthArgs : generateCommitMessage(m)

SpecSummarizer == InitSummarizer /\ [][NextSummarizer]_vars

\* the Summarizer on the working trees whose files are all pure additions
NextAdditions ==
    \/ \E f \in FileNames, stat \in AdditionStats : WorkingTreeChange(f, stat)
    \/ \E m \in MaxLengthArgs : generateCommitMessage(m)

SpecAdditions == InitSummarizer /\ [][NextAdditions]_vars

\* the Change Reader on any working tree, with any set of files git cannot diff
InitReader ==
    /\ InitCommon
    /\ broken \in SUBSET FileNames

NextReader ==
    \/ \E f \in FileNames, stat \in ReaderStats : WorkingTreeChange(f, stat)
    \/ getFileChangesStart
    \/ getFileChangesStep
    \/ getFileChangesReturn

SpecReader == InitReader /\ [][NextReader]_vars

\* the Report Writer, called again and again
InitWriter ==
    /\ InitCommon
    /\ broken = {}

NextWriter ==
    \/ \E content \in Contents, filename \in Filenames, directory \in DirectoryArgs :
           writeMarkdownFile(content, filename, directory)
    \/ \E directory \in DirectoryArgs, failing \in {"mkdirSync", "writeFileSync"} :
           writeMarkdownFileThrows(directory, failing)

SpecWriter == InitWriter /\ [][NextWriter]_vars

----------------------------------------------------------------------------
(* What the properties of generateCommitMessage are stated with *)

StartsWith(s, prefix) ==
    /\ Len(prefix) <= Len(s)
    /\ SubSeq(s, 1, Len(prefix)) = prefix

Contains(s, part) ==
    \E i \in 0..(Len(s) - Len(part)) : SubSeq(s, i + 1, i + Len(part)) = part

\* the call has returned
CommitReturned == commitResult # Undefined

\* the exclusion set, and the counts of a record of the diff summary
Excluded(name) == name \in {"dist", "bun.lock"}
InsOf(r) == IF r.binary THEN 0 ELSE r.insertions
DelOf(r) == IF r.binary THEN 0 ELSE r.deletions
IsAdded(r)    == InsOf(r) > 0 /\ DelOf(r) = 0
IsDeleted(r)  == InsOf(r) = 0 /\ DelOf(r) > 0
IsModified(r) == InsOf(r) > 0 /\ DelOf(r) > 0

\* the positions of the diff summary that survive the exclusion filter
KeptAt == {i \in 1..Len(files) : ~Excluded(files[i].file)}
AddedAt    == {i \in KeptAt : IsAdded(files[i])}
DeletedAt  == {i \in KeptAt : IsDeleted(files[i])}
ModifiedAt == {i \in KeptAt : IsModified(files[i])}

\* the bucket the headline is about: the first non-empty of Added, Deleted, Modified
WinningAt ==
    IF AddedAt # {} THEN AddedAt
    ELSE IF DeletedAt # {} THEN DeletedAt
    ELSE ModifiedAt

\* the file names at a set of positions, in input order, joined by ", "
RECURSIVE NamesAt(_, _)
NamesAt(at, i) ==
    IF i > Len(files) THEN <<>>
    ELSE (IF i \in at THEN <<files[i].file>> ELSE <<>>) \o NamesAt(at, i + 1)

\* the insertions, and the deletions, summed over a set of positions
RECURSIVE TotalIns(_)
TotalIns(at) ==
    IF at = {} THEN 0
    ELSE LET i == CHOOSE j \in at : TRUE
         IN  InsOf(files[i]) + TotalIns(at \ {i})
RECURSIVE TotalDel(_)
TotalDel(at) ==
    IF at = {} THEN 0
    ELSE LET i == CHOOSE j \in at : TRUE
         IN  DelOf(files[i]) + TotalDel(at \ {i})

\* C1: whenever the change sequence is empty after the exclusion filter, the
\* summarizer returns exactly "No changes detected", whatever maxLength is.
C1_EmptyAfterFilterIsSentinel ==
    (CommitReturned /\ KeptAt = {}) => commitResult = "No changes detected"

\* C2: the returned message is never longer than maxLength, and a message that
\* was longer than maxLength is returned as its first maxLength - 3 characters
\* followed by "...". (Stated for the calls that assembled a message: the
\* sentinel of an empty diff summary is returned before the length bound.)
C2_LengthBound ==
    (CommitReturned /\ Len(files) > 0) =>
        /\ Len(commitResult) <= maxLength
        /\ Len(commitMessage) > maxLength =>
               commitResult = SubSeq(commitMessage, 1, maxLength - 3) \o "..."

\* every record is a pure addition and none is excluded
AllPureAdditions ==
    /\ Len(files) > 0
    /\ \A i \in 1..Len(files) : ~Excluded(files[i].file) /\ IsAdded(files[i])

C4_HeadlinePrecedence ==
    (CommitReturned /\ Len(files) > 0) =>
        LET a == Cardinality(AddedAt)
            d == Cardinality(DeletedAt)
            m == Cardinality(ModifiedAt)
        IN  /\ a > 0 => StartsWith(commitMessage, "Add " \o NumStr(a) \o " ")
            /\ (a = 0 /\ d > 0) =>
                   StartsWith(commitMessage, "Remove " \o NumStr(d) \o " ")
            /\ (a = 0 /\ d = 0 /\ m > 0) =>
                   StartsWith(commitMessage, "Update " \o NumStr(m) \o " ")
            /\ StartsWith(commitMessage, "Remove") => a = 0
            /\ StartsWith(commitMessage, "Update") => (a = 0 /\ d = 0)

C4_Witness ==
    /\ CommitReturned
    /\ Cardinality(AddedAt) = 1
    /\ Cardinality(DeletedAt) = 2
    /\ Cardinality(ModifiedAt) = 1
    /\ IsDeleted(files[1])

\* C5: the message lists ": " and the winning bucket's file names, joined by
\* ", " in input order, exactly when the winning bucket has at most 3 members
\* (3 is listed, 4 is not), and never names a file of another bucket.
C5_ListingBoundary ==
    (CommitReturned /\ Len(files) > 0 /\ WinningAt # {}) =>
        LET n     == Cardinality(WinningAt)
            names == JoinStr(NamesAt(WinningAt, 1), ", ")
        IN  /\ n <= 3 => Contains(commitMessage, "file" \o (IF n > 1 THEN "s" ELSE "")
                                                     \o ": " \o names \o " (+")
            /\ n >= 4 => ~Contains(commitMessage, ":")
            /\ \A i \in 1..Len(files) :
                   (i \notin WinningAt \/ n >= 4) =>
                       ~Contains(commitMessage, files[i].file)

C5_Witness ==
    /\ CommitReturned
    /\ Cardinality(WinningAt) = 3
    /\ Cardinality(KeptAt) = 4
    /\ files[1].file = "c.ts" /\ 1 \in WinningAt
    /\ files[3].file = "a.ts" /\ 3 \in WinningAt

C5_WitnessNoListing ==
    CommitReturned /\ Cardinality(WinningAt) = 4

\* C6: the untruncated message ends with " (+I -D)" if and only if I + D > 0,
\* I and D being the insertions and deletions summed over every non-excluded
\* record, whatever its bucket; excluded records are not counted.
C6_AggregateStats ==
    CommitReturned =>
        LET I == TotalIns(KeptAt)
            D == TotalDel(KeptAt)
        IN  IF I + D > 0
            THEN EndsWith(commitMessage, " (+" \o NumStr(I) \o " -" \o NumStr(D) \o ")")
            ELSE ~Contains(commitMessage, "(+")

C6_Witness ==
    /\ CommitReturned
    /\ \E i \in 1..Len(files) : Excluded(files[i].file) /\ InsOf(files[i]) > 0
    /\ AddedAt # {} /\ DeletedAt # {} /\ ModifiedAt # {}

----------------------------------------------------------------------------
(* The properties of getFileChangesInDirectory *)

\* the non-excluded positions whose file git cannot diff
BrokenAt == {i \in KeptAt : files[i].file \in broken}

\* C9: a call that succeeds returns one entry per changed file that is not
\* excluded and none for an excluded file, in the order of the diff summary.
C9_ReaderOutput ==
    readerPc = "done" =>
        /\ FileNamesOf(readerResult) = NamesAt(KeptAt, 1)
        /\ \A i \in 1..Len(readerResult) : ~Excluded(readerResult[i].file)
        /\ \A i, j \in 1..Len(readerResult) :
               readerResult[i].file = readerResult[j].file => i = j

C9_Witness ==
    /\ readerPc = "done"
    /\ Len(files) = 4
    /\ files[1].file = "c.ts" /\ files[2].file = "dist"
    /\ files[3].file = "a.ts" /\ files[4].file = "b.ts"

\* C10: when the diff of a non-excluded file fails, the call fails with that
\* file's error and returns no list, no later file is queried, and the file is
\* not skipped; an excluded file is never queried, so it cannot fail the call.
C10_ErrorPropagation ==
    /\ \A i \in 1..Len(queried) : ~Excluded(queried[i])
    /\ readerPc = "done" => BrokenAt = {}
    /\ readerPc = "failed" =>
           /\ BrokenAt # {}
           /\ LET first == CHOOSE i \in BrokenAt : \A j \in BrokenAt : i <= j
              IN  /\ readerError = "GitError: " \o files[first].file
                  /\ queried = NamesAt({i \in KeptAt : i <= first}, 1)
           /\ readerResult = <<>>

C10_Witness ==
    /\ readerPc = "failed"
    /\ Len(files) = 4
    /\ files[1].file = "a.ts" /\ files[2].file = "dist"
    /\ files[3].file = "b.ts" /\ files[4].file = "c.ts"
    /\ broken = {"dist", "b.ts"}
    /\ Len(diffs) = 1

----------------------------------------------------------------------------
(* The properties of writeMarkdownFile *)

\* how often a text occurs in a string
Occurrences(s, part) ==
    Cardinality({i \in 0..(Len(s) - Len(part)) : SubSeq(s, i + 1, i + Len(part)) = part})

\* the name of the file a path ends in
BaseName(path) == LET segments == SplitPath(path) IN segments[Len(segments)]

\* C7: the written file's name ends with ".md": it is the filename itself when
\* that ends with ".md" and the filename plus ".md" otherwise ("notes" and
\* "notes.md" both give "notes.md"); the normalization is idempotent; the
\* returned path is the directory joined with that name.
C7_FilenameNormalization ==
    /\ \A f \in Filenames : MarkdownFilename(MarkdownFilename(f)) = MarkdownFilename(f)
    /\ writePc = "returned" =>
           LET c    == calls[Len(calls)]
               name == BaseName(c.filePath)
           IN  /\ EndsWith(name, ".md")
               /\ EndsWith(c.filename, ".md") => name = c.filename
               /\ ~EndsWith(c.filename, ".md") => name = c.filename \o ".md"
               /\ c.filename \in {"notes", "notes.md"} => name = "notes.md"
               /\ c.directory = "." => c.filePath = name
               /\ c.directory = "./reports" => c.filePath = "reports/" \o name
               /\ \E e \in disk : e.path = c.filePath

C7_Witness ==
    /\ writePc = "returned"
    /\ Len(calls) = 2
    /\ calls[1].filename = "notes" /\ calls[1].filePath = "notes.md"
    /\ calls[2].filename = "notes.md" /\ calls[2].filePath = "notes.md"

\* C8: after any calls that returned, the file at each written path is one
\* header block followed by the content of the last call that wrote that path
\* ("notes" and "notes.md" write the same path); nothing of an earlier call is
\* kept, and the files at the other paths are as their own last call left them.
C8_Overwrite ==
    /\ \A e \in disk :
           LET at == {i \in 1..Len(calls) : calls[i].filePath = e.path}
           IN  /\ at # {}
               /\ LET c == calls[CHOOSE i \in at : \A j \in at : j <= i]
                  IN  /\ e.content = Header(c.timestamp) \o c.content
                      /\ Occurrences(e.content, "# Code Review Report") = 1
                      /\ Occurrences(e.content, "*Generated on: ") = 1
    /\ \A e1, e2 \in disk : e1.path = e2.path => e1 = e2
    /\ \A i \in 1..Len(calls) : \E e \in disk : e.path = calls[i].filePath
    /\ \A i, j \in 1..Len(calls) :
           (/\ calls[i].directory = calls[j].directory
            /\ {calls[i].filename, calls[j].filename} \subseteq {"notes", "notes.md"})
               => calls[i].filePath = calls[j].filePath

C8_Witness ==
    /\ Len(calls) = 3
    /\ calls[1].filename = "notes" /\ calls[1].content = "LGTM"
    /\ calls[2].filename = "review"
    /\ calls[3].filename = "notes.md" /\ calls[3].content = "Needs work"
    /\ \A i \in 1..3 : calls[i].directory = "./reports"
    /\ Cardinality(disk) = 2

====
